---- MODULE Spec2Model ----
(***************************************************************************)
(* Model of app.py: the MediBot relay.  Three route handlers (chat,        *)
(* summarize_chat, analyze_symptoms) validate a request, render the chat   *)
(* history into a prompt and delegate to call_gemini_api, which posts to   *)
(* the upstream API in a bounded retry loop with a doubling sleep.         *)
(*                                                                         *)
(* A Python string is modelled as a sequence of string fragments whose     *)
(* concatenation is the Python string: texts that the code inspects        *)
(* (upstream text, roles) are sequences of one-character fragments, the    *)
(* literals of app.py are one fragment each.                               *)
(***************************************************************************)
EXTENDS Integers, Sequences, FiniteSets, TLC

(***************************************************************************)
(* Bounds of the explored inputs.                                          *)
(***************************************************************************)
MaxHistLen == 2
MaxTextLen == 2

(***************************************************************************)
(* json.loads, as call_gemini_api uses it on the candidate text.           *)
(* Grammar of Python's json decoder restricted to the characters the       *)
(* explored texts contain: objects, arrays, strings without escapes,       *)
(* unsigned integers without a leading zero, and blanks as insignificant   *)
(* whitespace.  A parse yields the type of the value and the tokens of the *)
(* value: no insignificant whitespace, one member per key of an object.    *)
(***************************************************************************)
Digits == {"0", "1"}

JFail == [ok |-> FALSE, pos |-> 0, type |-> "none", val |-> <<>>]

JOk(p, t, v) == [ok |-> TRUE, pos |-> p, type |-> t, val |-> v]

RECURSIVE SkipWs(_, _)
SkipWs(s, p) ==
    IF p <= Len(s) /\ s[p] = " " THEN SkipWs(s, p + 1) ELSE p

RECURSIVE ScanDigits(_, _)
ScanDigits(s, p) ==
    IF p <= Len(s) /\ s[p] \in Digits THEN ScanDigits(s, p + 1) ELSE p

\* The end of the string literal whose opening quote is before position p:
\* the position of the closing quote, or 0 when the literal is unterminated.
RECURSIVE ScanString(_, _)
ScanString(s, p) ==
    IF p > Len(s) THEN 0
    ELSE IF s[p] = "\"" THEN p
    ELSE ScanString(s, p + 1)

ParseString(s, p) ==
    LET q == ScanString(s, p + 1)
    IN  IF q = 0 THEN JFail ELSE JOk(q + 1, "string", SubSeq(s, p, q))

ParseNumber(s, p) ==
    LET q == IF s[p] = "0" THEN p + 1 ELSE ScanDigits(s, p)
    IN  JOk(q, "number", SubSeq(s, p, q - 1))

\* The dict an object is decoded into: one entry per key, in the order the
\* keys first appear; a later pair with the same key replaces the value of
\* the earlier one.
PutMember(acc, k, v) ==
    IF \E n \in 1..Len(acc) : acc[n].key = k
    THEN [n \in 1..Len(acc) |->
             IF acc[n].key = k THEN [key |-> k, val |-> v] ELSE acc[n]]
    ELSE Append(acc, [key |-> k, val |-> v])

RECURSIVE MemberTokens(_)
MemberTokens(acc) ==
    IF acc = <<>> THEN <<>>
    ELSE acc[1].key \o <<":">> \o acc[1].val
         \o (IF Len(acc) = 1 THEN <<>> ELSE <<",">> \o MemberTokens(Tail(acc)))

ObjectTokens(acc) == <<"{">> \o MemberTokens(acc) \o <<"}">>

RECURSIVE ParseValue(_, _), ParseMembers(_, _, _), ParseElements(_, _, _)

\* One value starting exactly at position p.
ParseValue(s, p) ==
    IF p > Len(s) THEN JFail
    ELSE IF s[p] = "{" THEN
        LET q == SkipWs(s, p + 1)
        IN  IF q <= Len(s) /\ s[q] = "}" THEN JOk(q + 1, "object", <<"{", "}">>)
            ELSE ParseMembers(s, q, <<>>)
    ELSE IF s[p] = "[" THEN
        LET q == SkipWs(s, p + 1)
        IN  IF q <= Len(s) /\ s[q] = "]" THEN JOk(q + 1, "array", <<"[", "]">>)
            ELSE ParseElements(s, q, <<"[">>)
    ELSE IF s[p] = "\"" THEN ParseString(s, p)
    ELSE IF s[p] \in Digits THEN ParseNumber(s, p)
    ELSE JFail

\* The members of an object from position p (a key is expected there), acc
\* holding the entries of the dict read so far.
ParseMembers(s, p, acc) ==
    IF p > Len(s) \/ s[p] # "\"" THEN JFail
    ELSE
        LET k == ParseString(s, p)
        IN  IF ~k.ok THEN JFail
            ELSE
                LET c == SkipWs(s, k.pos)
                IN  IF c > Len(s) \/ s[c] # ":" THEN JFail
                    ELSE
                        LET v == ParseValue(s, SkipWs(s, c + 1))
                        IN  IF ~v.ok THEN JFail
                            ELSE
                                LET e    == SkipWs(s, v.pos)
                                    acc2 == PutMember(acc, k.val, v.val)
                                IN  IF e > Len(s) THEN JFail
                                    ELSE IF s[e] = "}" THEN
                                        JOk(e + 1, "object", ObjectTokens(acc2))
                                    ELSE IF s[e] = "," THEN
                                        ParseMembers(s, SkipWs(s, e + 1), acc2)
                                    ELSE JFail

\* The elements of an array from position p (a value is expected there).
ParseElements(s, p, acc) ==
    LET v == ParseValue(s, p)
    IN  IF ~v.ok THEN JFail
        ELSE
            LET e    == SkipWs(s, v.pos)
                acc2 == acc \o v.val
            IN  IF e > Len(s) THEN JFail
                ELSE IF s[e] = "]" THEN JOk(e + 1, "array", acc2 \o <<"]">>)
                ELSE IF s[e] = "," THEN
                    ParseElements(s, SkipWs(s, e + 1), acc2 \o <<",">>)
                ELSE JFail

\* json.loads(text): one value between optional whitespace, nothing after it.
JsonLoads(s) ==
    LET v == ParseValue(s, SkipWs(s, 1))
    IN  IF ~v.ok THEN JFail
        ELSE IF SkipWs(s, v.pos) # Len(s) + 1 THEN JFail
        ELSE v

(***************************************************************************)
(* Python values.                                                          *)
(***************************************************************************)
\* dict.get(k, default)
Get(d, k, default) == IF k \in DOMAIN d THEN d[k] ELSE default

Upper(c) ==
    CASE c = "u" -> "U" [] c = "b" -> "B" [] c = "s" -> "S" [] c = "e" -> "E"
      [] c = "r" -> "R" [] c = "o" -> "O" [] c = "t" -> "T" [] OTHER -> c

Lower(c) ==
    CASE c = "U" -> "u" [] c = "B" -> "b" [] c = "S" -> "s" [] c = "E" -> "e"
      [] c = "R" -> "r" [] c = "O" -> "o" [] c = "T" -> "t" [] OTHER -> c

\* str.capitalize(): first character upper case, the rest lower case.
Capitalize(s) ==
    IF s = <<>> THEN <<>>
    ELSE <<Upper(s[1])>> \o [k \in 1..(Len(s) - 1) |-> Lower(s[k + 1])]

\* str() of a value json.loads returned that is not a dict, as the f-string
\* of analyze_symptoms formats it: a str is itself, a number its digits, a
\* list its repr (", " and ": " separators, single quotes around strings).
RECURSIVE ReprTokens(_, _)
ReprTokens(v, inString) ==
    IF v = <<>> THEN <<>>
    ELSE IF v[1] = "\"" THEN <<"'">> \o ReprTokens(Tail(v), ~inString)
    ELSE IF inString THEN <<v[1]>> \o ReprTokens(Tail(v), inString)
    ELSE IF v[1] = "," THEN <<", ">> \o ReprTokens(Tail(v), inString)
    ELSE IF v[1] = ":" THEN <<": ">> \o ReprTokens(Tail(v), inString)
    ELSE <<v[1]>> \o ReprTokens(Tail(v), inString)

PyStr(type, val) ==
    IF type = "string" THEN SubSeq(val, 2, Len(val) - 1)
    ELSE ReprTokens(val, FALSE)

(***************************************************************************)
(* What a call returns or raises.                                          *)
(***************************************************************************)
\* kind: "return" or "raise"; type and val: the returned value ("str" for a
\* plain string, else the type of the value json.loads returned); exc: the
\* exception raised; status: the status code an HTTPError carries.
NoOutcome ==
    [kind |-> "none", type |-> "none", val |-> <<>>, exc |-> "none", status |-> 0]

ReturnStr(s) ==
    [kind |-> "return", type |-> "str", val |-> s, exc |-> "none", status |-> 0]

ReturnJson(j) ==
    [kind |-> "return", type |-> j.type, val |-> j.val, exc |-> "none", status |-> 0]

Raise(name) ==
    [kind |-> "raise", type |-> "none", val |-> <<>>, exc |-> name, status |-> 0]

RaiseHTTPError(code) ==
    [kind |-> "raise", type |-> "none", val |-> <<>>, exc |-> "HTTPError",
     status |-> code]

(***************************************************************************)
(* format_history                                                          *)
(***************************************************************************)
FormatItem(item) == Capitalize(item["role"]) \o <<": ">> \o item["text"]

RECURSIVE JoinLines(_)
JoinLines(lines) ==
    IF lines = <<>> THEN <<>>
    ELSE IF Len(lines) = 1 THEN lines[1]
    ELSE lines[1] \o <<"\n">> \o JoinLines(Tail(lines))

format_history(history) ==
    IF \E k \in DOMAIN history : ~({"role", "text"} \subseteq DOMAIN history[k])
    THEN Raise("KeyError")
    ELSE ReturnStr(JoinLines([k \in DOMAIN history |-> FormatItem(history[k])]))

(***************************************************************************)
(* The upstream API as requests.post sees it.                              *)
(*                                                                         *)
(* An answer is a transport failure (a RequestException with description   *)
(* err) or an HTTP response with a status; a 2xx response carries a JSON   *)
(* body of one of these shapes:                                            *)
(*   "no_candidates"     no 'candidates' key                               *)
(*   "empty_candidates"  'candidates': []                                  *)
(*   "no_content"        first candidate without 'content'                 *)
(*   "no_parts"          content without 'parts'                           *)
(*   "empty_parts"       'parts': []                                       *)
(*   "no_text"           first part without 'text'                         *)
(*   "text"              first part with 'text': text                      *)
(***************************************************************************)
TextAlphabet == {"{", "}", "1", " "}

SampleObject == <<"{", "\"", "a", "\"", ":", "1", "}">>

SampleTriage ==
    <<"{", "\"", "category", "\"", ":", "\"", "Common Ailment (Low Risk)", "\"",
      ",", "\"", "reasoning", "\"", ":", "\"", "x", "\"",
      ",", "\"", "recommendation", "\"", ":", "\"", "y", "\"", "}">>

\* An object text that repeats a key, and the same inside a list.
SampleRepeatedKey ==
    <<"{", "\"", "a", "\"", ":", "1", ",", "\"", "b", "\"", ":", "1", ",",
      "\"", "a", "\"", ":", "0", "}">>

SampleTexts ==
    { SampleObject,
      SampleTriage,
      SampleRepeatedKey,
      <<"[">> \o SampleRepeatedKey \o <<"]">>,
      <<"{", "\"", "a", "\"", ":", "1">>,
      <<"{", "\"", "a", "\"", ":", "1", ",", "}">>,
      <<"[", "{", "}", ",", "\"", "a", "\"", "]">>,
      <<"\"", "a", "\"">>,
      <<"0", "1">>,
      <<"O", "K">> }

Texts == UNION {[1..n -> TextAlphabet] : n \in 0..MaxTextLen} \cup SampleTexts

ErrDescs == {<<"Connection refused">>, <<"Read timed out">>}

Statuses == {200, 404, 429, 500, 503}

Shapes == {"no_candidates", "empty_candidates", "no_content", "no_parts",
           "empty_parts", "no_text", "text"}

TransportFailure(e) ==
    [kind |-> "transport", status |-> 0, shape |-> "none", text |-> <<>>, err |-> e]

HttpResponse(code, shape, text) ==
    [kind |-> "http", status |-> code, shape |-> shape, text |-> text, err |-> <<>>]

Answers ==
    {TransportFailure(e) : e \in ErrDescs}
    \cup {HttpResponse(code, "none", <<>>) : code \in Statuses \ {200}}
    \cup {HttpResponse(200, sh, <<>>) : sh \in Shapes \ {"text"}}
    \cup {HttpResponse(200, "text", t) : t \in Texts}

(***************************************************************************)
(* call_gemini_api                                                         *)
(***************************************************************************)
max_retries == 5

NoPayload ==
    [contents |-> <<>>, tools |-> "none", systemInstruction |-> "none",
     generationConfig |-> "none"]

\* The payload: grounding is always on; the JSON response mode is set when
\* the call is structured and a schema is given.
BuildPayload(prompt, system_instruction, is_struct, schema) ==
    [contents |-> prompt, tools |-> "google_search",
     systemInstruction |-> system_instruction,
     generationConfig |-> IF is_struct /\ schema # "none"
                          THEN "application/json:" \o schema ELSE "{}"]

\* response.raise_for_status()
RaiseForStatus(code) == 400 <= code /\ code < 600

\* A retry list that also holds 404.
RetryableWith404(code) == code \in {404, 429, 500, 503}

\* response.status_code in [429, 500, 503]
Retryable(code) == code \in {429, 500, 503}

\* The retry guard without the "- 1": the last iteration sleeps too.
RetriesRemainOffByOne(n) == n < max_retries

\* The retry guard dropped: every transient status sleeps.
RetriesRemainAlways(n) == n >= 0

\* i < max_retries - 1
RetriesRemain(n) == n < max_retries - 1

\* A linear backoff in place of the doubling one.
NextDelayLinear(d) == d + 1

\* delay *= 2
NextDelay(d) == d * 2

Placeholder ==
    <<"A", "I", " ", "r", "e", "s", "p", "o", "n", "s", "e", " ", "f", "a", "i",
      "l", "e", "d", " ", "t", "o", " ", "g", "e", "n", "e", "r", "a", "t", "e",
      " ", "t", "e", "x", "t", ".">>

\* result.get('candidates', [{}])[0] and
\* candidate.get('content', {}).get('parts', [{}])[0].get('text', placeholder)
ExtractText(ans) ==
    CASE ans.shape \in {"empty_candidates", "empty_parts"} -> Raise("IndexError")
      [] ans.shape = "text" -> ReturnStr(ans.text)
      [] OTHER -> ReturnStr(Placeholder)

\* One iteration of the retry loop, given the upstream's answer to its post:
\* the outcome that ends the call, or NoOutcome when the iteration sleeps.
Iteration(ans, n, is_struct) ==
    IF ans.kind = "transport" THEN
        ReturnStr(<<"Error connecting to the Gemini API: ">> \o ans.err)
    ELSE IF RaiseForStatus(ans.status) THEN
        IF Retryable(ans.status) /\ RetriesRemain(n) THEN NoOutcome
        ELSE RaiseHTTPError(ans.status)
    ELSE
        LET t == ExtractText(ans)
        IN  IF t.kind = "raise" THEN t
            ELSE IF is_struct THEN
                LET j == JsonLoads(t.val)
                IN  IF j.ok THEN ReturnJson(j)
                    ELSE ReturnStr(<<"Error: Failed to parse AI response as JSON. Raw response: ">>
                                   \o t.val)
            ELSE t

MaxRetriesReached ==
    ReturnStr(<<"Error: Maximum number of retries reached for API request.">>)

(***************************************************************************)
(* HTTP responses of the route handlers.                                   *)
(***************************************************************************)
NoResponse == [status |-> 0, key |-> "none", body |-> <<>>]

\* jsonify({key: body}), status
Jsonify(key, body, status) == [status |-> status, key |-> key, body |-> body]

\* The fixed message of each route's except clause.
GenericMessage(ep) ==
    CASE ep = "chat" ->
           <<"An internal server error occurred while processing the AI request.">>
      [] ep = "summarize" ->
           <<"An internal server error occurred during summarization.">>
      [] ep = "analyze" ->
           <<"An internal server error occurred during symptom analysis.">>

\* The fixed message of each route's validation failure.
ValidationMessage(ep) ==
    CASE ep = "chat" -> <<"Please provide a query.">>
      [] ep = "summarize" -> <<"Not enough conversation history to summarize.">>
      [] ep = "analyze" -> <<"Not enough symptom data in history for analysis.">>

\* An exception that leaves the view function: no except clause of app.py
\* sees it and the framework answers with its own error page.
UnhandledError == [status |-> 500, key |-> "html", body |-> <<"Internal Server Error">>]

\* A type check that lets every parsed JSON value through.
IsDictOrAnyJson(out) == out.kind = "return" /\ out.type # "str"

\* isinstance(json_response, dict)
IsDict(out) == out.kind = "return" /\ out.type = "object"

\* The statements of a route after call_gemini_api returned or raised.
RouteResult(ep, out) ==
    IF out.kind = "raise" THEN Jsonify("response", GenericMessage(ep), 500)
    ELSE IF ep \in {"chat", "summarize"} THEN Jsonify("response", out.val, 200)
    ELSE IF IsDict(out) THEN Jsonify("analysis", out.val, 200)
    ELSE Jsonify("response",
                 <<"Error: Could not process structured analysis. ">>
                   \o (IF out.type = "str" THEN out.val ELSE PyStr(out.type, out.val)),
                 500)

\* not user_query
ChatValid(d) == Get(d, "query", <<>>) # <<>>

\* A history check that accepts a single turn.
HistoryValidOneTurn(d) == ~(Len(Get(d, "history", <<>>)) < 1)

\* not (len(history) < 2)
HistoryValid(d) == ~(Len(Get(d, "history", <<>>)) < 2)

(***************************************************************************)
(* Requests.                                                               *)
(***************************************************************************)
UserRole == <<"u", "s", "e", "r">>
BotRole == <<"b", "o", "t">>

Turns ==
    { [role |-> UserRole, text |-> <<"a">>],
      [role |-> BotRole, text |-> <<"b">>],
      [text |-> <<"a">>],
      [role |-> UserRole] }

Histories == UNION {[1..n -> Turns] : n \in 0..MaxHistLen}

Queries == {<<>>, <<"h", "i">>}

EmptyDict == [k \in {} |-> <<>>]

ChatRequests ==
    {[query |-> q, history |-> h] : q \in Queries, h \in Histories}
    \cup {[query |-> q] : q \in Queries}
    \cup {[history |-> h] : h \in Histories}
    \cup {EmptyDict}

HistoryRequests == {[history |-> h] : h \in Histories} \cup {EmptyDict}

(***************************************************************************)
(* State.                                                                  *)
(* Requests share no state, so a behaviour follows one request from its    *)
(* arrival to its response.                                                *)
(*   pc            "idle": no request yet; "post": call_gemini_api is      *)
(*                 about to post; "sleep": it is about to sleep; "done":   *)
(*                 the request is answered                                 *)
(*   endpoint, data  the request being handled                             *)
(*   payload, is_structured, i, delay  locals of call_gemini_api           *)
(*   log           the upstream's answers to the posts of this request     *)
(*   sleeps        the arguments of the time.sleep calls of this request   *)
(*   outcome       what call_gemini_api returned or raised                 *)
(*   response      the HTTP response of the request                        *)
(***************************************************************************)
VARIABLES pc, endpoint, data, payload, is_structured, i, delay, log, sleeps,
          outcome, response

vars == <<pc, endpoint, data, payload, is_structured, i, delay, log, sleeps,
          outcome, response>>

Init ==
    /\ pc = "idle"
    /\ endpoint = "none"
    /\ data = EmptyDict
    /\ payload = NoPayload
    /\ is_structured = FALSE
    /\ i = 0
    /\ delay = 1
    /\ log = <<>>
    /\ sleeps = <<>>
    /\ outcome = NoOutcome
    /\ response = NoResponse

\* A route returns resp without calling call_gemini_api.
Answer(ep, d, resp) ==
    /\ pc' = "done"
    /\ endpoint' = ep
    /\ data' = d
    /\ payload' = NoPayload
    /\ is_structured' = FALSE
    /\ i' = 0
    /\ delay' = 1
    /\ log' = <<>>
    /\ sleeps' = <<>>
    /\ outcome' = NoOutcome
    /\ response' = resp

\* A route enters call_gemini_api: the payload is built, the loop starts.
EnterCall(ep, d, prompt, system_instruction, is_struct, schema) ==
    /\ pc' = "post"
    /\ endpoint' = ep
    /\ data' = d
    /\ payload' = BuildPayload(prompt, system_instruction, is_struct, schema)
    /\ is_structured' = is_struct
    /\ i' = 0
    /\ delay' = 1
    /\ log' = <<>>
    /\ sleeps' = <<>>
    /\ outcome' = NoOutcome
    /\ response' = NoResponse

\* POST /api/chat, up to the call of call_gemini_api.
Chat(d) ==
    /\ pc = "idle"
    /\ LET user_query == Get(d, "query", <<>>)
           history    == Get(d, "history", <<>>)
           rendered   == format_history(history)
       IN  IF ~ChatValid(d) THEN
               Answer("chat", d, Jsonify("response", ValidationMessage("chat"), 400))
           ELSE IF rendered.kind = "raise" THEN
               Answer("chat", d, UnhandledError)
           ELSE
               EnterCall("chat", d,
                         <<"Previous Conversation Context:\n">> \o rendered.val
                           \o <<"\n\nNew User Query: ">> \o user_query,
                         "chat", FALSE, "none")

\* POST /api/summarize, up to the call of call_gemini_api.
SummarizeChat(d) ==
    /\ pc = "idle"
    /\ LET history  == Get(d, "history", <<>>)
           rendered == format_history(history)
       IN  IF ~HistoryValid(d) THEN
               Answer("summarize", d,
                      Jsonify("response", ValidationMessage("summarize"), 400))
           ELSE IF rendered.kind = "raise" THEN
               Answer("summarize", d, UnhandledError)
           ELSE
               EnterCall("summarize", d, rendered.val, "summarize", FALSE, "none")

\* POST /api/analyze, up to the call of call_gemini_api.
AnalyzeSymptoms(d) ==
    /\ pc = "idle"
    /\ LET history  == Get(d, "history", <<>>)
           rendered == format_history(history)
       IN  IF ~HistoryValid(d) THEN
               Answer("analyze", d,
                      Jsonify("response", ValidationMessage("analyze"), 400))
           ELSE IF rendered.kind = "raise" THEN
               Answer("analyze", d, UnhandledError)
           ELSE
               EnterCall("analyze", d, rendered.val, "analyze", TRUE, "json_schema")

\* GET /
HomeStatus ==
    /\ pc = "idle"
    /\ Answer("home", EmptyDict,
              Jsonify("status",
                      <<"MediBot Backend is running and ready for API calls!">>, 200))

\* One requests.post of the retry loop and what the iteration does with the
\* upstream's answer: the call ends and the route answers, or the iteration
\* goes to sleep.
Post(ans) ==
    /\ pc = "post"
    /\ log' = Append(log, ans)
    /\ LET out == Iteration(ans, i, is_structured)
       IN  IF out.kind = "none" THEN
               /\ pc' = "sleep"
               /\ UNCHANGED <<outcome, response>>
           ELSE
               /\ pc' = "done"
               /\ outcome' = out
               /\ response' = RouteResult(endpoint, out)
    /\ UNCHANGED <<endpoint, data, payload, is_structured, i, delay, sleeps>>

\* time.sleep(delay); delay *= 2; then the next iteration of the for loop,
\* or the statement after the loop when the range is exhausted.
Sleep ==
    /\ pc = "sleep"
    /\ sleeps' = Append(sleeps, delay)
    /\ delay' = NextDelay(delay)
    /\ i' = i + 1
    /\ IF i + 1 < max_retries THEN
           /\ pc' = "post"
           /\ UNCHANGED <<outcome, response>>
       ELSE
           /\ pc' = "done"
           /\ outcome' = MaxRetriesReached
           /\ response' = RouteResult(endpoint, MaxRetriesReached)
    /\ UNCHANGED <<endpoint, data, payload, is_structured, log>>

Next ==
    \/ \E d \in ChatRequests : Chat(d)
    \/ \E d \in HistoryRequests : SummarizeChat(d)
    \/ \E d \in HistoryRequests : AnalyzeSymptoms(d)
    \/ HomeStatus
    \/ \E ans \in Answers : Post(ans)
    \/ Sleep

Spec == Init /\ [][Next]_vars

\* Every post returns and the handler runs on: a request in progress is
\* not abandoned.
LiveSpec == Spec /\ WF_vars(\E ans \in Answers : Post(ans)) /\ WF_vars(Sleep)

(***************************************************************************)
(* Vocabulary of the properties, stated on the request and on the          *)
(* upstream's answers, independently of the operators that model the code. *)
(***************************************************************************)
Routes == {"chat", "summarize", "analyze"}

Ended == pc = "done" /\ endpoint \in Routes

Attempts == Len(log)

LastAnswer == log[Len(log)]

Transient(a) == a.kind = "http" /\ a.status \in {429, 500, 503}

HttpError(a) == a.kind = "http" /\ a.status >= 400

NonRetryableFailure(a) == a.kind = "transport" \/ (HttpError(a) /\ ~Transient(a))

IsPrefix(a, b) == Len(a) <= Len(b) /\ \A k \in 1..Len(a) : a[k] = b[k]

RECURSIVE SumSeq(_)
SumSeq(q) == IF q = <<>> THEN 0 ELSE Head(q) + SumSeq(Tail(q))

\* The request passes the validation of its route.
PassesValidation ==
    IF endpoint = "chat"
    THEN "query" \in DOMAIN data /\ Len(data["query"]) >= 1
    ELSE "history" \in DOMAIN data /\ Len(data["history"]) >= 2

\* Every turn of the request's history has a role and a text.
WellFormedHistory ==
    "history" \in DOMAIN data =>
        \A k \in DOMAIN data["history"] :
            DOMAIN data["history"][k] = {"role", "text"}

\* The upstream answered 503 four times and then 200 with a text.
FourTimes503Then200 ==
    /\ Len(log) = 5
    /\ \A k \in 1..4 : log[k].kind = "http" /\ log[k].status = 503
    /\ log[5].kind = "http" /\ log[5].status = 200 /\ log[5].shape = "text"

(***************************************************************************)
(* C1.  A sleep happens only after an attempt that received 429, 500 or    *)
(* 503; the k-th sleep of a call lasts 2^(k-1) seconds, so the recorded    *)
(* sleeps are a prefix of 1, 2, 4, 8; when the upstream answers 503 four   *)
(* times and then 200, the call succeeds on the 5th attempt with sleeps    *)
(* exactly 1, 2, 4, 8.                                                     *)
(***************************************************************************)
C1_BackoffSequence ==
    /\ IsPrefix(sleeps, <<1, 2, 4, 8>>)
    /\ Len(sleeps) <= Len(log)
    /\ \A k \in 1..Len(sleeps) : Transient(log[k])
    /\ pc = "sleep" => Transient(LastAnswer) /\ Len(sleeps) = Len(log) - 1
    /\ (pc = "done" /\ FourTimes503Then200) =>
          /\ sleeps = <<1, 2, 4, 8>>
          /\ outcome.kind = "return"
          /\ endpoint \in {"chat", "summarize"} =>
                response = [status |-> 200, key |-> "response", body |-> log[5].text]

C1_Witness ==
    /\ pc = "done"
    /\ FourTimes503Then200
    /\ endpoint = "chat"
    /\ sleeps = <<1, 2, 4, 8>>
    /\ response.status = 200

(***************************************************************************)
(* C2.  As claimed: a request that fails validation is answered 400 with   *)
(* no upstream call, and a request that passes validation causes at least  *)
(* one upstream call before it is answered.                                *)
(***************************************************************************)
C2_Original ==
    Ended =>
        IF PassesValidation THEN Attempts >= 1
        ELSE response.status = 400 /\ Attempts = 0

(***************************************************************************)
(* C2, amended.  A request that fails validation is answered 400 with no   *)
(* upstream call; a request that passes validation and whose history       *)
(* turns all have a role and a text causes at least one upstream call      *)
(* before it is answered.                                                  *)
(***************************************************************************)
C2_ValidationGatesUpstream ==
    /\ Ended /\ ~PassesValidation => response.status = 400 /\ Attempts = 0
    /\ Ended /\ PassesValidation /\ WellFormedHistory => Attempts >= 1
    /\ pc \in {"post", "sleep"} => PassesValidation

C2_Witness ==
    /\ Ended
    /\ endpoint = "summarize"
    /\ PassesValidation
    /\ WellFormedHistory
    /\ Attempts >= 1

(***************************************************************************)
(* C3.  A non-retryable failure ends the call at once: after an attempt    *)
(* that got an HTTP error status other than 429, 500, 503, or a transport  *)
(* failure, there is no sleep and no further attempt; an upstream that     *)
(* answers 404 to the first attempt is called exactly once.                *)
(***************************************************************************)
C3_NonRetryableEndsCall ==
    \A k \in 1..Len(log) :
        NonRetryableFailure(log[k]) =>
            /\ k = Len(log)
            /\ Len(sleeps) = k - 1
            /\ pc = "done"

C3_Witness ==
    /\ pc = "done"
    /\ Len(log) = 3
    /\ LastAnswer.kind = "http" /\ LastAnswer.status = 404
    /\ Len(sleeps) = 2

(***************************************************************************)
(* C4.  When every attempt of a call receives 429, 500 or 503, the call    *)
(* makes exactly 5 attempts with exactly 4 sleeps, does not sleep after    *)
(* the 5th attempt, surfaces the HTTP error of the 5th attempt, and the    *)
(* endpoint answers 500.                                                   *)
(***************************************************************************)
C4_ExhaustedRetries ==
    /\ Len(log) = 5 => pc = "done" /\ Len(sleeps) = 4
    /\ (Ended /\ log # <<>> /\ \A k \in 1..Len(log) : Transient(log[k])) =>
          /\ Len(log) = 5
          /\ Len(sleeps) = 4
          /\ outcome.kind = "raise"
          /\ outcome.exc = "HTTPError"
          /\ outcome.status = log[5].status
          /\ response.status = 500

C4_Witness ==
    /\ Ended
    /\ Len(log) = 5
    /\ \A k \in 1..5 : Transient(log[k])
    /\ log[4].status = 503
    /\ log[5].status = 429
    /\ outcome.status = 429

(***************************************************************************)
(* C5.  A transport-level failure of the upstream call is surfaced to the  *)
(* client as HTTP 500 on /api/chat, /api/summarize and /api/analyze.       *)
(***************************************************************************)
C5_TransportFailureIs500 ==
    (Ended /\ log # <<>> /\ LastAnswer.kind = "transport") => response.status = 500

(***************************************************************************)
(* C6.  A request that ends in a transport error, an upstream HTTP error   *)
(* or a structured-output parse error gets a body out of a fixed set of    *)
(* constant messages, whatever the upstream's error description or text.   *)
(***************************************************************************)
FixedMessages == {GenericMessage(ep) : ep \in Routes}

ServerSideFailure ==
    /\ Ended
    /\ log # <<>>
    /\ \/ LastAnswer.kind = "transport"
       \/ HttpError(LastAnswer)
       \/ outcome.kind = "return" /\ outcome.type = "str" /\ endpoint = "analyze"

C6_GenericMessages == ServerSideFailure => response.body \in FixedMessages

(***************************************************************************)
(* C7.  An unexpected failure during prompt construction (format_history   *)
(* on a turn without role or text) or during API invocation (a 2xx body    *)
(* whose candidates list is empty) is caught by the route handler and      *)
(* answered 500 with the endpoint's fixed generic message.                 *)
(***************************************************************************)
UnexpectedFailure ==
    /\ Ended
    /\ \/ PassesValidation /\ ~WellFormedHistory
       \/ outcome.kind = "raise" /\ outcome.exc = "IndexError"

C7_FailuresCaughtByRoute ==
    UnexpectedFailure =>
        response = [status |-> 500, key |-> "response", body |-> GenericMessage(endpoint)]

(***************************************************************************)
(* C8.  A validated /api/analyze request is answered 200 with              *)
(* {analysis: X} exactly when the upstream call succeeded and its first    *)
(* candidate text is a JSON object X; invalid JSON (the placeholder text   *)
(* included), a JSON value that is not an object, and a failure string     *)
(* are answered 500.                                                       *)
(***************************************************************************)
Strip(t) == SelectSeq(t, LAMBDA c : c # " ")

\* The texts of the explored inputs that are JSON objects, told without the
\* parser: blanks around the two braces, or one of the two sample objects.
IsObjectText(t) ==
    \/ (\A k \in 1..Len(t) : t[k] \in {"{", "}", " "}) /\ Strip(t) = <<"{", "}">>
    \/ t \in {SampleObject, SampleTriage, SampleRepeatedKey}

\* The object such a text denotes: the text without its blanks, and for the
\* text that repeats the key "a", the last value under the first position.
ObjectOf(t) ==
    IF t = SampleRepeatedKey
    THEN <<"{", "\"", "a", "\"", ":", "0", ",", "\"", "b", "\"", ":", "1", "}">>
    ELSE Strip(t)

UpstreamGaveObject ==
    /\ log # <<>>
    /\ LastAnswer.kind = "http"
    /\ LastAnswer.status = 200
    /\ LastAnswer.shape = "text"
    /\ IsObjectText(LastAnswer.text)

C8_AnalyzeAnswer ==
    (Ended /\ endpoint = "analyze" /\ PassesValidation) =>
        IF UpstreamGaveObject
        THEN response = [status |-> 200, key |-> "analysis",
                         body |-> ObjectOf(LastAnswer.text)]
        ELSE response.status = 500 /\ response.key # "analysis"

C8_Witness ==
    /\ Ended
    /\ endpoint = "analyze"
    /\ log # <<>>
    /\ LastAnswer.kind = "http"
    /\ LastAnswer.status = 200
    /\ LastAnswer.text = <<"[", "{", "}", ",", "\"", "a", "\"", "]">>
    /\ response.status = 500

(***************************************************************************)
(* C9.  Every request terminates with exactly one response: a call makes   *)
(* at most 5 attempts and at most 4 sleeps, 15 seconds of sleep in all; a  *)
(* request in progress is eventually answered; an answered request has a   *)
(* response and the response never changes.                                *)
(***************************************************************************)
C9_Bounded ==
    /\ Len(log) <= 5
    /\ Len(sleeps) <= 4
    /\ SumSeq(sleeps) <= 15
    /\ pc = "done" <=> response # NoResponse

C9_Termination ==
    /\ []C9_Bounded
    /\ [][response # NoResponse => response' = response]_vars
    /\ (pc \in {"post", "sleep"}) ~> (pc = "done")

C9_Witness ==
    /\ pc = "done"
    /\ Len(log) = 5
    /\ Len(sleeps) = 4
    /\ SumSeq(sleeps) = 15
    /\ LastAnswer.kind = "transport"

(***************************************************************************)
(* C10.  The outcome "Error: Maximum number of retries reached for API     *)
(* request." is unreachable: an iteration continues only when fewer than   *)
(* 5 attempts have been made, so the 5th attempt returns or raises and the *)
(* statement after the loop is never executed.                             *)
(***************************************************************************)
C10_MaxRetriesUnreachable ==
    /\ outcome.val # <<"Error: Maximum number of retries reached for API request.">>
    /\ response.body # <<"Error: Maximum number of retries reached for API request.">>
    /\ pc = "sleep" => Len(log) < 5
    /\ Len(log) = 5 => pc = "done" /\ outcome.kind \in {"return", "raise"}

C10_Witness ==
    /\ pc = "done"
    /\ Len(log) = 5
    /\ Transient(LastAnswer)
    /\ LastAnswer.status = 500
    /\ outcome.kind = "raise"

====
